---- MODULE Spec2Model ----
(***************************************************************************)
(* Model of the NFCHandler React component                                 *)
(* (src/app/(tabs)/wallet/NFCHandler.tsx).                                 *)
(*                                                                         *)
(* The component is single-threaded and event driven.  One action of the   *)
(* model is one run-to-completion slice of JavaScript: an event handler or *)
(* effect up to its first await, or the continuation of an async function  *)
(* from the settling of the promise it awaits up to its next await (with   *)
(* the continuations of callers that resume in the same tick).             *)
(*                                                                         *)
(* NfcManager, Firestore and the host screen are the environment.  A call  *)
(* into NfcManager takes effect on the reader when it is issued (native    *)
(* calls are served in issue order); the promise it returns settles in a   *)
(* later step, resolved or rejected as the environment chooses.            *)
(* cancelTechnologyRequest releases a granted technology request and       *)
(* cancels the outstanding ones, which can then only reject.               *)
(*                                                                         *)
(* op and out record the slice that ran last and the calls, alerts and     *)
(* host callbacks it made, in program order.                               *)
(***************************************************************************)
EXTENDS Integers, Sequences, FiniteSets, TLC

\* Bounds of the model.
MaxStarts == 2      \* startNFC invocations that can be suspended at once
MaxShares == 2      \* handleShare invocations that can be suspended at once
MaxStops == 1       \* stopNFC invocations that can be suspended at once

Starts == 1..MaxStarts
Shares == 1..MaxShares

\* A CardData value is represented by its id; NoCard is null.
NoCard == "null"
CardIds == {"c1", "c2"}
\* The card lists getDocs may deliver (document ids are unique).
Snapshots == {<<>>, <<"c1">>, <<"c1", "c2">>}

VARIABLES
    mounted,        \* the component has rendered and its effects have run
    user,           \* auth.currentUser is present
    visible,        \* the visible prop
    cards,          \* useState cards
    selectedCard,   \* useState selectedCard
    fetchPc,        \* fetchCards: "idle", "getDocs", "done"
    startPc,        \* per startNFC invocation: the await it is suspended at
    stopPending,    \* stopNFC invocations suspended at their await
    sharePc,        \* per handleShare invocation: "idle" or "transceive"
    shareCard,      \* per handleShare invocation: the selectedCard it closed over
    techHeld,       \* the reader holds a granted technology request
    op,             \* the slice that ran last
    out             \* what that slice called, alerted and reported, in order

vars == <<mounted, user, visible, cards, selectedCard, fetchPc, startPc,
          stopPending, sharePc, shareCard, techHeld, op, out>>

----------------------------------------------------------------------------
\* Observable effects.

Eff(kind, name, card) == [k |-> kind, n |-> name, c |-> card]

CallStart == Eff("call", "NfcManager.start", NoCard)
CallRequest == Eff("call", "NfcManager.requestTechnology", NoCard)
CallGetTag == Eff("call", "NfcManager.getTag", NoCard)
CallCancel == Eff("call", "NfcManager.cancelTechnologyRequest", NoCard)
CallTransceive(card) == Eff("call", "NfcManager.transceive", card)
CallGetDocs == Eff("call", "getDocs", NoCard)

AlertDetected == Eff("alert", "Another phone is nearby. Choose a card to share.", NoCard)
AlertNfcFailed == Eff("alert", "NFC failed", NoCard)
AlertSuccess == Eff("alert", "Card information has been written to the NFC tag.", NoCard)
AlertEncodeFailed == Eff("alert", "Failed to encode the NDEF message.", NoCard)
AlertWriteFailed == Eff("alert", "Failed to write the NFC tag.", NoCard)
AlertSelect == Eff("alert", "Please select a card to share.", NoCard)

HostCardSelected(card) == Eff("host", "onCardSelected", card)
HostClose == Eff("host", "onClose", NoCard)

Has(e, effs) == \E i \in DOMAIN effs : effs[i] = e
Count(e, effs) == Cardinality({i \in DOMAIN effs : effs[i] = e})
IsHost(e) == e.k = "host"
IsCall(e) == e.k = "call"
AnyHost(effs) == \E i \in DOMAIN effs : IsHost(effs[i])
AnyCall(effs) == \E i \in DOMAIN effs : IsCall(effs[i])
Elems(s) == {s[i] : i \in DOMAIN s}

----------------------------------------------------------------------------
\* The reader's reaction to the calls a slice issues.

\* cancelTechnologyRequest releases the granted request.
ReaderHeld(held, effs) == IF Has(CallCancel, effs) THEN FALSE ELSE held

\* cancelTechnologyRequest cancels the outstanding requestTechnology calls.
ReaderRequests(pcs, effs) ==
    IF Has(CallCancel, effs)
    THEN [s \in Starts |-> IF pcs[s] = "request" THEN "requestCancelled" ELSE pcs[s]]
    ELSE pcs

\* A slice that issues effs: the reader reacts and the slice is recorded.
Emit(name, effs, pcs) ==
    /\ op' = name
    /\ out' = effs
    /\ techHeld' = ReaderHeld(techHeld, effs)
    /\ startPc' = ReaderRequests(pcs, effs)

----------------------------------------------------------------------------
\* startNFC and stopNFC

InProgress == {"start", "request", "requestCancelled", "getTag"}
Running == {s \in Starts : startPc[s] \in InProgress}
FreeStart == Starts \ Running

\* startNFC up to its first await (line 53).
startNFCBegin == <<CallStart>>

\* A stopNFC that reports the cancellation as a failure.
stopNFCBeginAlerts == <<CallCancel, AlertNfcFailed>>

\* stopNFC up to its await (line 67).
stopNFCBegin == <<CallCancel>>

\* The catch block of startNFC (lines 60-63).
startNFCCatch == <<AlertNfcFailed>>

\* useEffect[visible] (lines 43-49) run with the value v of the prop.
VisibleEffect(v, before) ==
    IF v
    THEN /\ FreeStart # {}
         /\ LET s == CHOOSE x \in FreeStart : \A y \in FreeStart : x <= y
            IN Emit("useEffect", before \o startNFCBegin,
                    [startPc EXCEPT ![s] = "start"])
         /\ UNCHANGED stopPending
    ELSE /\ stopPending < MaxStops
         /\ stopPending' = stopPending + 1
         /\ Emit("useEffect", before \o stopNFCBegin, startPc)

\* First render: both effects run, in declaration order (lines 26-41, 43-49).
Mount(v) ==
    /\ ~mounted
    /\ mounted' = TRUE
    /\ visible' = v
    /\ fetchPc' = IF user THEN "getDocs" ELSE "done"
    /\ VisibleEffect(v, IF user THEN <<CallGetDocs>> ELSE <<>>)
    /\ UNCHANGED <<user, cards, selectedCard, sharePc, shareCard>>

\* A fetch effect that depends on [visible]: it runs again at every change.
SetVisibleRefetches(v) ==
    /\ mounted
    /\ v # visible
    /\ visible' = v
    /\ fetchPc' = IF user THEN "getDocs" ELSE "done"
    /\ VisibleEffect(v, IF user THEN <<CallGetDocs>> ELSE <<>>)
    /\ UNCHANGED <<mounted, user, cards, selectedCard, sharePc, shareCard>>

\* The host changes the visible prop; the effect of line 43 runs.
SetVisible(v) ==
    /\ mounted
    /\ v # visible
    /\ visible' = v
    /\ VisibleEffect(v, <<>>)
    /\ UNCHANGED <<mounted, user, cards, selectedCard, fetchPc, sharePc, shareCard>>

\* NfcManager.start() settles (line 53 -> 54, or the catch).
StartSettle(s, ok) ==
    /\ startPc[s] = "start"
    /\ IF ok
       THEN Emit("startNFC", <<CallRequest>>, [startPc EXCEPT ![s] = "request"])
       ELSE Emit("startNFC", startNFCCatch, [startPc EXCEPT ![s] = "idle"])
    /\ UNCHANGED <<mounted, user, visible, cards, selectedCard, fetchPc,
                   stopPending, sharePc, shareCard>>

\* requestTechnology resolves: the reader grants the request (line 54 -> 55).
RequestResolve(s) ==
    /\ startPc[s] = "request"
    /\ op' = "startNFC"
    /\ out' = <<CallGetTag>>
    /\ techHeld' = TRUE
    /\ startPc' = [startPc EXCEPT ![s] = "getTag"]
    /\ UNCHANGED <<mounted, user, visible, cards, selectedCard, fetchPc,
                   stopPending, sharePc, shareCard>>

\* requestTechnology rejects (refused or cancelled): the catch runs.
RequestReject(s) ==
    /\ startPc[s] \in {"request", "requestCancelled"}
    /\ Emit("startNFC", startNFCCatch, [startPc EXCEPT ![s] = "idle"])
    /\ UNCHANGED <<mounted, user, visible, cards, selectedCard, fetchPc,
                   stopPending, sharePc, shareCard>>

\* The rest of startNFC once getTag settles (lines 55-63).
startNFCTail(r) ==
    CASE r = "tag" -> <<AlertDetected>>
      [] r = "null" -> <<>>
      [] r = "throw" -> startNFCCatch

GetTagSettle(s, r) ==
    /\ startPc[s] = "getTag"
    /\ Emit("startNFC", startNFCTail(r), [startPc EXCEPT ![s] = "idle"])
    /\ UNCHANGED <<mounted, user, visible, cards, selectedCard, fetchPc,
                   stopPending, sharePc, shareCard>>

\* The promise awaited by stopNFC settles; nothing follows the await.
StopSettle ==
    /\ stopPending > 0
    /\ stopPending' = stopPending - 1
    /\ Emit("stopNFC", <<>>, startPc)
    /\ UNCHANGED <<mounted, user, visible, cards, selectedCard, fetchPc,
                   sharePc, shareCard>>

----------------------------------------------------------------------------
\* fetchCards

\* getDocs settles (lines 32-36); a rejection leaves cards untouched.
FetchSettle(ok, snap) ==
    /\ fetchPc = "getDocs"
    /\ fetchPc' = "done"
    /\ cards' = IF ok THEN snap ELSE cards
    /\ Emit("fetchCards", <<>>, startPc)
    /\ UNCHANGED <<mounted, user, visible, selectedCard, stopPending,
                   sharePc, shareCard>>

----------------------------------------------------------------------------
\* The modal's controls (rendered only while visible)

\* A handleCardSelection that reports the choice to the host at once.
handleCardSelectionNotifies(card) ==
    /\ mounted /\ visible
    /\ card \in Elems(cards)
    /\ selectedCard' = card
    /\ Emit("handleCardSelection", <<HostCardSelected(card)>>, startPc)
    /\ UNCHANGED <<mounted, user, visible, cards, fetchPc, stopPending,
                   sharePc, shareCard>>

\* A handleCardSelection fed from rows that are not those of cards.
handleCardSelectionAnyRow(card) ==
    /\ mounted /\ visible
    /\ selectedCard' = card
    /\ Emit("handleCardSelection", <<>>, startPc)
    /\ UNCHANGED <<mounted, user, visible, cards, fetchPc, stopPending,
                   sharePc, shareCard>>

\* handleCardSelection (lines 92-94), from a row of the FlatList.
handleCardSelection(card) ==
    /\ mounted /\ visible
    /\ card \in Elems(cards)
    /\ selectedCard' = card
    /\ Emit("handleCardSelection", <<>>, startPc)
    /\ UNCHANGED <<mounted, user, visible, cards, fetchPc, stopPending,
                   sharePc, shareCard>>

\* The Cancel button and onRequestClose (lines 107, 123).
PressCancel ==
    /\ mounted /\ visible
    /\ Emit("onClose", <<HostClose>>, startPc)
    /\ UNCHANGED <<mounted, user, visible, cards, selectedCard, fetchPc,
                   stopPending, sharePc, shareCard>>

\* A handleShare whose else branch also tells the host to close.
handleShareEmptyCloses == <<AlertSelect, HostClose>>

\* handleShare with no selection (lines 101-103).
handleShareEmpty == <<AlertSelect>>

\* A writeNfcTag that releases the session on the success path only.
writeNfcTagTailNoFinally(alert) ==
    IF alert = AlertSuccess THEN <<alert, CallCancel>> ELSE <<alert>>

\* writeNfcTag after the write attempt: the alert, then finally (lines 80-89).
writeNfcTagTail(alert) == <<alert, CallCancel>>

\* A handleShare that reads the selection again after the await.
handleShareTailStale(card) == <<HostCardSelected(selectedCard), HostClose>>

\* handleShare after await writeNfcTag (lines 99-100).
handleShareTail(card) == <<HostCardSelected(card), HostClose>>

\* writeNfcTag up to await transceive (lines 72-79).
writeNfcTagBegin(card) == <<CallTransceive(card)>>

FreeShare == {h \in Shares : sharePc[h] = "idle"}

\* The share button (line 120): handleShare up to the first real suspension.
\* enc is what Ndef.encodeMessage does: "bytes", "none" (falsy) or "throw".
handleShare(enc) ==
    /\ mounted /\ visible
    /\ IF selectedCard = NoCard
       THEN /\ Emit("handleShare", handleShareEmpty, startPc)
            /\ UNCHANGED <<sharePc, shareCard>>
       ELSE CASE enc = "bytes" ->
                   /\ FreeShare # {}
                   /\ LET h == CHOOSE x \in FreeShare : \A y \in FreeShare : x <= y
                      IN /\ sharePc' = [sharePc EXCEPT ![h] = "transceive"]
                         /\ shareCard' = [shareCard EXCEPT ![h] = selectedCard]
                   /\ Emit("handleShare", writeNfcTagBegin(selectedCard), startPc)
              [] enc = "none" ->
                   /\ Emit("handleShare",
                           writeNfcTagTail(AlertEncodeFailed) \o handleShareTail(selectedCard),
                           startPc)
                   /\ UNCHANGED <<sharePc, shareCard>>
              [] enc = "throw" ->
                   /\ Emit("handleShare",
                           writeNfcTagTail(AlertWriteFailed) \o handleShareTail(selectedCard),
                           startPc)
                   /\ UNCHANGED <<sharePc, shareCard>>
    /\ UNCHANGED <<mounted, user, visible, cards, selectedCard, fetchPc, stopPending>>

\* transceive settles: writeNfcTag finishes and handleShare resumes (79-89, 99-100).
TransceiveSettle(h, ok) ==
    /\ sharePc[h] = "transceive"
    /\ sharePc' = [sharePc EXCEPT ![h] = "idle"]
    /\ shareCard' = [shareCard EXCEPT ![h] = NoCard]
    /\ Emit("writeNfcTag",
            writeNfcTagTail(IF ok THEN AlertSuccess ELSE AlertWriteFailed)
                \o handleShareTail(shareCard[h]),
            startPc)
    /\ UNCHANGED <<mounted, user, visible, cards, selectedCard, fetchPc, stopPending>>

----------------------------------------------------------------------------

Init ==
    /\ mounted = FALSE
    /\ user \in BOOLEAN
    /\ visible = FALSE
    /\ cards = <<>>
    /\ selectedCard = NoCard
    /\ fetchPc = "idle"
    /\ startPc = [s \in Starts |-> "idle"]
    /\ stopPending = 0
    /\ sharePc = [h \in Shares |-> "idle"]
    /\ shareCard = [h \in Shares |-> NoCard]
    /\ techHeld = FALSE
    /\ op = "init"
    /\ out = <<>>

Next ==
    \/ \E v \in BOOLEAN : Mount(v)
    \/ \E v \in BOOLEAN : SetVisible(v)
    \/ \E s \in Starts, ok \in BOOLEAN : StartSettle(s, ok)
    \/ \E s \in Starts : RequestResolve(s)
    \/ \E s \in Starts : RequestReject(s)
    \/ \E s \in Starts, r \in {"tag", "null", "throw"} : GetTagSettle(s, r)
    \/ StopSettle
    \/ \E ok \in BOOLEAN, snap \in Snapshots : FetchSettle(ok, snap)
    \/ \E card \in CardIds : handleCardSelection(card)
    \/ PressCancel
    \/ \E enc \in {"bytes", "none", "throw"} : handleShare(enc)
    \/ \E h \in Shares, ok \in BOOLEAN : TransceiveSettle(h, ok)

Spec == Init /\ [][Next]_vars

TypeOK ==
    /\ mounted \in BOOLEAN /\ user \in BOOLEAN /\ visible \in BOOLEAN
    /\ cards \in Snapshots
    /\ selectedCard \in CardIds \cup {NoCard}
    /\ fetchPc \in {"idle", "getDocs", "done"}
    /\ startPc \in [Starts -> InProgress \cup {"idle"}]
    /\ stopPending \in 0..MaxStops
    /\ sharePc \in [Shares -> {"idle", "transceive"}]
    /\ shareCard \in [Shares -> CardIds \cup {NoCard}]
    /\ techHeld \in BOOLEAN

----------------------------------------------------------------------------
\* The controller's states, derived from the program's state.

\* startNFC invocations still acquiring a session.
Acquiring == {s \in Starts : startPc[s] \in {"start", "request", "requestCancelled"}}

\* No session is held and none is being acquired.
Idle == ~techHeld /\ Running = {}

\* Every asynchronous step that was launched has run.
Quiescent ==
    /\ Running = {}
    /\ stopPending = 0
    /\ \A h \in Shares : sharePc[h] = "idle"
    /\ fetchPc # "getDocs"

\* The slice just run ended a write attempt of writeNfcTag.
WriteEnds ==
    \/ \E h \in Shares : sharePc[h] = "transceive" /\ sharePc'[h] = "idle"
    \/ op' = "handleShare" /\ selectedCard # NoCard /\ sharePc' = sharePc

NotifiedShare(effs) == \E c \in CardIds : Has(HostCardSelected(c), effs)

----------------------------------------------------------------------------
\* C1: once the modal is hidden and every pending asynchronous step has run,
\* no technology request is held and none is being acquired.
C1_HiddenQuiescentIdle == (mounted /\ ~visible /\ Quiescent) => Idle

\* C2: at most one session is held or being acquired at any time: no second
\* startNFC is acquiring while an earlier session is being acquired or held.
C2_AtMostOneSession ==
    Cardinality(Acquiring) + (IF techHeld THEN 1 ELSE 0) <= 1

\* C3: every write attempt, whatever its outcome, ends having called
\* cancelTechnologyRequest exactly once, after its alert, and with no
\* technology request held.
C3_WriteReleasesOnce ==
    [][WriteEnds =>
          /\ Count(CallCancel, out') = 1
          /\ \E i \in DOMAIN out' :
                /\ out'[i] \in {AlertSuccess, AlertEncodeFailed, AlertWriteFailed}
                /\ i + 1 \in DOMAIN out' /\ out'[i + 1] = CallCancel
          /\ ~techHeld']_vars

\* A write whose transceive threw ended with the release issued once.
C3_Witness ==
    /\ op = "writeNfcTag"
    /\ Has(AlertWriteFailed, out)
    /\ Count(CallCancel, out) = 1
    /\ ~techHeld

\* C4: transceive is called only while a technology request is held.
C4_TransceiveOnlyInSession ==
    (\E c \in CardIds : Has(CallTransceive(c), out)) => techHeld

\* C5: a write that resumes after the modal was hidden (handleShare can only
\* be started while it is visible) does not report a share to the host.
C5_HiddenWriteNotShared ==
    (op = "writeNfcTag" /\ ~visible) => ~NotifiedShare(out)

\* C6: handleShare with an empty selection only raises the "Please select a
\* card" alert: no call reaches the reader, no write is started and the host
\* is not notified.
C6_EmptySelectionOnlyAlerts ==
    [][(op' = "handleShare" /\ selectedCard = NoCard) =>
          /\ out' = <<AlertSelect>>
          /\ UNCHANGED <<techHeld, startPc, stopPending, sharePc, shareCard>>]_vars

\* A share confirmed with no selection while a session is held.
C6_Witness ==
    /\ op = "handleShare"
    /\ selectedCard = NoCard
    /\ out = <<AlertSelect>>
    /\ techHeld

\* C7: when the only running startNFC fails at any of its awaits, no
\* technology request is held afterwards.
C7_StartFailureReleases ==
    [][\A s \in Starts :
          (Running = {s} /\ startPc'[s] = "idle" /\ Has(AlertNfcFailed, out'))
              => ~techHeld']_vars

\* C8: a write attempt that fails with EncodeFailed or WriteFailed calls
\* neither onCardSelected nor onClose.
C8_FailedWriteKeepsModal ==
    (Has(AlertEncodeFailed, out) \/ Has(AlertWriteFailed, out)) => ~AnyHost(out)

\* C9: the card transmitted is the selection at the moment of the confirm, the
\* confirm itself notifies nobody, and a successful write is followed, after
\* the release, by onCardSelected with that card and then onClose.
C9_SuccessNotifiesHost ==
    [][/\ \A h \in Shares :
             (sharePc[h] = "idle" /\ sharePc'[h] = "transceive") =>
                 /\ shareCard'[h] = selectedCard
                 /\ out' = <<CallTransceive(selectedCard)>>
       /\ \A h \in Shares :
             (sharePc[h] = "transceive" /\ sharePc'[h] = "transceive") =>
                 shareCard'[h] = shareCard[h]
       /\ Has(AlertSuccess, out') =>
             \E h \in Shares :
                 /\ sharePc[h] = "transceive" /\ sharePc'[h] = "idle"
                 /\ out' = <<AlertSuccess, CallCancel,
                             HostCardSelected(shareCard[h]), HostClose>>]_vars

\* A successful write reported with the card that was confirmed, after the
\* user had chosen another card while the write was in flight.
C9_Witness ==
    /\ op = "writeNfcTag"
    /\ Has(AlertSuccess, out)
    /\ \E c \in CardIds :
          /\ Has(HostCardSelected(c), out)
          /\ selectedCard \in CardIds \ {c}

\* C10: whenever the modal is hidden the selection is empty.
C10_HiddenSelectionEmpty == (mounted /\ ~visible) => selectedCard = NoCard

----------------------------------------------------------------------------
\* The payload of a write (lines 72-75), with CardData as the record of its
\* fields and text as a sequence of characters.  JsonSpec takes cards of
\* bounded field values through a selection and the start of a write.

MaxStrLen == 2      \* length of the varied field values

Alphabet == {"n", "\"", "\\", "\n"}
Strs == UNION {[1..k -> Alphabet] : k \in 0..MaxStrLen}

\* The keys of CardData (lines 7-14), as text.
KeyChars ==
    [id |-> <<"i", "d">>,
     firstName |-> <<"f", "i", "r", "s", "t", "N", "a", "m", "e">>,
     lastName |-> <<"l", "a", "s", "t", "N", "a", "m", "e">>,
     type |-> <<"t", "y", "p", "e">>,
     phone |-> <<"p", "h", "o", "n", "e">>,
     workNumber |-> <<"w", "o", "r", "k", "N", "u", "m", "b", "e", "r">>]
Fields == DOMAIN KeyChars
FieldOrder == <<"id", "firstName", "lastName", "type", "phone", "workNumber">>

CardTypes ==
    {<<"S", "t", "u", "d", "e", "n", "t">>,
     <<"W", "o", "r", "k">>,
     <<"P", "e", "r", "s", "o", "n", "a", "l">>}

\* The card of the spec's example, and cards built from two varied strings.
ExampleCard ==
    [id |-> <<"1">>, firstName |-> <<"A", "n", "n">>, lastName |-> <<"L", "e", "e">>,
     type |-> <<"W", "o", "r", "k">>, phone |-> <<"5", "5", "5", "-", "1">>]
JsonCards ==
    {ExampleCard}
    \cup {[id |-> s, firstName |-> u, lastName |-> u \o s, type |-> ty, phone |-> s \o u]
            : s \in Strs, u \in Strs, ty \in CardTypes}
    \cup {[id |-> s, firstName |-> u, lastName |-> u \o s, type |-> ty, phone |-> s \o u,
           workNumber |-> u]
            : s \in Strs, u \in Strs, ty \in CardTypes}

\* JSON.stringify of a string: quoted, with ", \ and newline escaped.
EscapeChar(c) ==
    CASE c = "\"" -> <<"\\", "\"">>
      [] c = "\\" -> <<"\\", "\\">>
      [] c = "\n" -> <<"\\", "n">>
      [] OTHER -> <<c>>

RECURSIVE Escape(_)
Escape(s) == IF s = <<>> THEN <<>> ELSE EscapeChar(Head(s)) \o Escape(Tail(s))

JsonString(s) == <<"\"">> \o Escape(s) \o <<"\"">>

\* JSON.stringify of an object: its own keys, in order, undefined ones left out.
RECURSIVE JsonMembers(_, _)
JsonMembers(card, ks) ==
    IF ks = <<>> THEN <<>>
    ELSE JsonString(KeyChars[Head(ks)]) \o <<":">> \o JsonString(card[Head(ks)])
            \o (IF Tail(ks) = <<>> THEN <<>> ELSE <<",">> \o JsonMembers(card, Tail(ks)))

JsonStringify(card) ==
    LET ks == SelectSeq(FieldOrder, LAMBDA k : k \in DOMAIN card)
    IN <<"{">> \o JsonMembers(card, ks) \o <<"}">>

\* A payload that carries only the fields the list shows (line 115).
CardPayloadDisplayOnly(card) ==
    JsonStringify([k \in {"firstName", "lastName", "type"} |-> card[k]])

\* The text of the record: JSON.stringify(selectedCard) (line 73).
CardPayload(card) == JsonStringify(card)

\* Ndef.textRecord (line 73): an English text record.
TextRecord(text) == [tnf |-> "WELL_KNOWN", type |-> "T", lang |-> <<"e", "n">>, text |-> text]

\* The message handed to Ndef.encodeMessage (lines 72-75).
NdefMessage(card) == <<TextRecord(CardPayload(card))>>

\* JSON.parse, the inverse parser of the receiving side.
SyntaxError == [error |-> <<"SyntaxError">>]

UnescapeChar(c) == IF c = "n" THEN "\n" ELSE c

\* The characters of a string literal from position i (after its opening
\* quote) to its closing quote: the text and the position after it.
RECURSIVE ReadChars(_, _, _)
ReadChars(t, i, acc) ==
    IF i > Len(t) THEN [v |-> acc, i |-> 0]
    ELSE IF t[i] = "\"" THEN [v |-> acc, i |-> i + 1]
    ELSE IF t[i] = "\\"
         THEN IF i + 1 > Len(t) THEN [v |-> acc, i |-> 0]
              ELSE ReadChars(t, i + 2, Append(acc, UnescapeChar(t[i + 1])))
    ELSE ReadChars(t, i + 1, Append(acc, t[i]))

ReadString(t, i) ==
    IF i > Len(t) \/ i = 0 THEN [v |-> <<>>, i |-> 0]
    ELSE IF t[i] # "\"" THEN [v |-> <<>>, i |-> 0]
    ELSE ReadChars(t, i + 1, <<>>)

RECURSIVE ReadMembers(_, _, _)
ReadMembers(t, i, acc) ==
    LET key == ReadString(t, i)
        colon == key.i # 0 /\ key.i <= Len(t) /\ t[key.i] = ":"
        val == IF colon THEN ReadString(t, key.i + 1) ELSE [v |-> <<>>, i |-> 0]
    IN IF val.i = 0 \/ val.i > Len(t) \/ ~(\E f \in Fields : KeyChars[f] = key.v)
       THEN SyntaxError
       ELSE LET f == CHOOSE g \in Fields : KeyChars[g] = key.v
                more == (f :> val.v) @@ acc
            IN IF t[val.i] = "," THEN ReadMembers(t, val.i + 1, more)
               ELSE IF t[val.i] = "}" /\ val.i = Len(t) THEN more
               ELSE SyntaxError

JsonParse(t) ==
    IF Len(t) < 2 \/ t[1] # "{" THEN SyntaxError
    ELSE IF Len(t) = 2 /\ t[2] = "}" THEN <<>>
    ELSE ReadMembers(t, 2, <<>>)

JsonInit ==
    /\ mounted = TRUE
    /\ user = TRUE
    /\ visible = TRUE
    /\ \E card \in JsonCards : cards = <<card>>
    /\ selectedCard = NoCard
    /\ fetchPc = "done"
    /\ startPc = [s \in Starts |-> "idle"]
    /\ stopPending = 0
    /\ sharePc = [h \in Shares |-> "idle"]
    /\ shareCard = [h \in Shares |-> NoCard]
    /\ techHeld = TRUE
    /\ op = "fetchCards"
    /\ out = <<>>

\* handleCardSelection (lines 92-94) on the row of the card.
JsonSelect ==
    /\ op = "fetchCards"
    /\ selectedCard' = cards[1]
    /\ op' = "handleCardSelection"
    /\ UNCHANGED <<mounted, user, visible, cards, fetchPc, startPc, stopPending,
                   sharePc, shareCard, techHeld, out>>

\* handleShare and writeNfcTag up to await transceive (lines 96-98, 70-79).
JsonWrite ==
    /\ op = "handleCardSelection"
    /\ op' = "handleShare"
    /\ out' = <<CallTransceive(NdefMessage(selectedCard))>>
    /\ sharePc' = [sharePc EXCEPT ![1] = "transceive"]
    /\ shareCard' = [shareCard EXCEPT ![1] = selectedCard]
    /\ UNCHANGED <<mounted, user, visible, cards, selectedCard, fetchPc, startPc,
                   stopPending, techHeld>>

JsonNext == JsonSelect \/ JsonWrite

JsonSpec == JsonInit /\ [][JsonNext]_vars

----------------------------------------------------------------------------
AnyAlert(effs) == \E i \in DOMAIN effs : effs[i].k = "alert"

\* C11: a mount with no signed-in user issues no getDocs, leaves cards
\* empty and reports the SourceUnavailable error to the user.
C11_NoUserReportsError ==
    [][(~mounted /\ mounted' /\ ~user) =>
          /\ ~Has(CallGetDocs, out')
          /\ cards' = <<>>
          /\ AnyAlert(out')]_vars

\* C12: fetchCards runs at the mount and never again: getDocs is called only
\* by the mount slice, the fetch never restarts once begun, and cards changes
\* only when that one getDocs resolves.
C12_FetchOncePerMount ==
    [][/\ (~mounted /\ mounted') => fetchPc' = (IF user THEN "getDocs" ELSE "done")
       /\ Has(CallGetDocs, out') => (~mounted /\ fetchPc = "idle")
       /\ mounted => (fetchPc' = fetchPc \/ (fetchPc = "getDocs" /\ fetchPc' = "done"))
       /\ cards' # cards => (fetchPc = "getDocs" /\ fetchPc' = "done" /\ cards = <<>>)]_vars

\* The cards of the one fetch are still in place after a card was chosen and
\* the modal was hidden.
C12_Witness ==
    /\ fetchPc = "done"
    /\ cards # <<>>
    /\ selectedCard # NoCard
    /\ ~visible
    /\ op = "useEffect"

C14_SelectionOnlySelects ==
    [][/\ op' = "handleCardSelection" =>
             /\ out' = <<>>
             /\ selectedCard' \in Elems(cards)
             /\ UNCHANGED <<mounted, user, visible, cards, fetchPc, startPc,
                            stopPending, sharePc, shareCard, techHeld>>
       /\ (\/ \E c \in CardIds : Has(CallTransceive(c), out')
           \/ \E h \in Shares : sharePc[h] = "idle" /\ sharePc'[h] = "transceive")
             => op' = "handleShare"
       /\ Has(AlertDetected, out') =>
             (out' = <<AlertDetected>> /\ UNCHANGED <<sharePc, shareCard>>)]_vars

\* A card chosen while a session is held: nothing was called or reported.
C14_Witness ==
    /\ op = "handleCardSelection"
    /\ selectedCard \in CardIds
    /\ techHeld
    /\ out = <<>>

\* C16: the selection, the card of every write in flight and every card
\* transmitted or reported to the host are elements of cards.
C16_SelectionInCards ==
    /\ selectedCard \in Elems(cards) \cup {NoCard}
    /\ \A h \in Shares : shareCard[h] \in Elems(cards) \cup {NoCard}
    /\ \A i \in DOMAIN out : out[i].c \in Elems(cards) \cup {NoCard}

\* The second card of a two-card list was written and reported.
C16_Witness ==
    /\ cards = <<"c1", "c2">>
    /\ Has(AlertSuccess, out)
    /\ Has(HostCardSelected("c2"), out)

\* C17: at most one handleShare is suspended in writeNfcTag at a time.
C17_OneWriteInFlight ==
    Cardinality({h \in Shares : sharePc[h] = "transceive"}) <= 1

\* C18: startNFC raises its alerts only while the modal is visible.
C18_StartAlertsOnlyVisible ==
    (op = "startNFC" /\ (Has(AlertDetected, out) \/ Has(AlertNfcFailed, out)))
        => visible

\* C15: the message of a write is exactly one text record, and parsing its
\* text as JSON gives back the selected card, with every field it has.
C15_PayloadRoundTrip ==
    op = "handleShare" =>
        /\ Len(out) = 1
        /\ out[1].n = "NfcManager.transceive"
        /\ Len(out[1].c) = 1
        /\ out[1].c[1].type = "T"
        /\ JsonParse(out[1].c[1].text) = selectedCard

\* A card with a work number whose first name is a backslash and a quote
\* was written and parses back.
C15_Witness ==
    /\ op = "handleShare"
    /\ "workNumber" \in DOMAIN selectedCard
    /\ selectedCard.firstName = <<"\\", "\"">>
    /\ JsonParse(out[1].c[1].text) = selectedCard

====
